---- MODULE Spec2Model ----
(***************************************************************************)
(* Model of the reconciliation scoring engine, app/engine/scorer.py:       *)
(* the three component scorers, score_match and score_candidates.          *)
(*                                                                         *)
(* Numbers.  The scorer computes with Decimal amounts and Python floats.   *)
(* Here every score is an exact rational [n |-> numerator, d |->           *)
(* denominator] in lowest terms with d > 0, so equalities such as          *)
(* "score = 0.5" are decided exactly.  Amounts are integers (an amount in  *)
(* the smallest currency unit); the rational arithmetic agrees with the    *)
(* Decimal/float arithmetic of the source up to float rounding.            *)
(***************************************************************************)
EXTENDS Integers, Sequences, FiniteSets, TLC

VARIABLES
    pc,              \* position of the running call
    cfg,             \* the ReconciliationScorer instance's configuration
    args,            \* arguments of a component-scorer / score_match call
    ret,             \* value returned by that call
    invoices,        \* score_candidates: argument `invoices`
    transactions,    \* score_candidates: argument `transactions`
    top_n,           \* score_candidates: argument `top_n`
    idx,             \* score_candidates: index of the next invoice of the outer loop
    all_candidates,  \* score_candidates: local `all_candidates`
    scored           \* pairs <<i, j>> for which score_match has been called

vars == <<pc, cfg, args, ret, invoices, transactions, top_n, idx, all_candidates, scored>>

\* Optional values: None is the empty tuple, a present value x is <<x>>.
None    == <<>>
Some(x) == <<x>>
Val(o)  == o[1]
\* tzinfo of a naive datetime
NoTz == "naive"

----------------------------------------------------------------------------
(* Exact rational arithmetic standing for Python float arithmetic.         *)

Abs(x) == IF x < 0 THEN -x ELSE x

RECURSIVE GCD(_, _)
GCD(a, b) == IF b = 0 THEN a ELSE GCD(b, a % b)

LCM(a, b) == (a \div GCD(a, b)) * b

Q(n, d) ==
    LET s == IF d < 0 THEN -1 ELSE 1
        g == GCD(Abs(n), Abs(d))
    IN  [n |-> (s * n) \div g, d |-> (s * d) \div g]

QInt(k)   == [n |-> k, d |-> 1]
Zero      == QInt(0)
One       == QInt(1)
Half      == Q(1, 2)
Hundred   == QInt(100)

QAdd(x, y) ==
    LET l == LCM(x.d, y.d)
    IN  Q(x.n * (l \div x.d) + y.n * (l \div y.d), l)
QNeg(x)    == [n |-> -x.n, d |-> x.d]
QSub(x, y) == QAdd(x, QNeg(y))
QMul(x, y) ==
    LET g1 == GCD(Abs(x.n), y.d)
        g2 == GCD(Abs(y.n), x.d)
    IN  Q((x.n \div g1) * (y.n \div g2), (x.d \div g2) * (y.d \div g1))
QDiv(x, y) == QMul(x, Q(y.d, y.n))
QLeq(x, y) ==
    LET l == LCM(x.d, y.d)
    IN  x.n * (l \div x.d) <= y.n * (l \div y.d)
QLt(x, y)  == ~QLeq(y, x)
QMax(x, y) == IF QLeq(x, y) THEN y ELSE x
QMin(x, y) == IF QLeq(x, y) THEN x ELSE y

\* f"{x:.1f}": x rounded to one decimal place (ties to even), in tenths.
Tenths(x) ==
    LET t  == (x.n * 10) \div x.d
        r2 == 2 * ((x.n * 10) % x.d)
    IN  IF r2 > x.d \/ (r2 = x.d /\ t % 2 = 1) THEN t + 1 ELSE t

----------------------------------------------------------------------------
(* Configurations.                                                         *)

\* ReconciliationScorer.__init__ (weights and tolerance as rationals).
Scorer(amount_exact_weight, amount_close_weight, date_proximity_weight, text_similarity_weight, amount_tolerance_percent, date_proximity_days) ==
    [amount_exact_weight      |-> amount_exact_weight,
     amount_close_weight      |-> amount_close_weight,
     date_proximity_weight    |-> date_proximity_weight,
     text_similarity_weight   |-> text_similarity_weight,
     amount_tolerance_percent |-> amount_tolerance_percent,
     date_proximity_days      |-> date_proximity_days]

\* The defaults of __init__: 0.4, 0.2, 0.3, 0.3, 2.0, 3.
DefaultConfig == Scorer(Q(4, 10), Q(2, 10), Q(3, 10), Q(3, 10), QInt(2), 3)

\* Weights that sum to more than 1.0, a wide tolerance, a long window.
HeavyConfig == Scorer(One, Zero, One, One, QInt(50), 20)

\* Weights that sum to less than 1.0, a fractional tolerance, a one-day window.
LightConfig == Scorer(Q(1, 2), Q(9, 10), Q(1, 4), Zero, Q(5, 2), 1)

Configs == {DefaultConfig, HeavyConfig, LightConfig}

----------------------------------------------------------------------------
(* calculate_amount_score                                                  *)

percent_diff(invoice_amount, transaction_amount) ==
    LET diff == Abs(invoice_amount - transaction_amount)
        sum  == invoice_amount + transaction_amount      \* avg = sum / 2
    IN  IF sum > 0 THEN Q(200 * diff, sum) ELSE Hundred

\* Variant: the tolerance test is strict, so a difference equal to the
\* tolerance falls outside the band.
calculate_amount_score_strict(c, invoice_amount, transaction_amount) ==
    IF invoice_amount = transaction_amount
    THEN [score |-> One, expl |-> [msg |-> "Exact amount match", val |-> 0]]
    ELSE LET pd == percent_diff(invoice_amount, transaction_amount)
         IN  IF QLt(pd, c.amount_tolerance_percent)
             THEN [score |-> QSub(One, QMul(QDiv(pd, c.amount_tolerance_percent), Half)),
                   expl  |-> [msg |-> "Amount within {:.1f}% tolerance", val |-> Tenths(pd)]]
             ELSE [score |-> QMax(Zero, QSub(One, QDiv(pd, Hundred))),
                   expl  |-> [msg |-> "Amount differs by {:.1f}%", val |-> Tenths(pd)]]

\* Variant: the score outside the tolerance is not floored at 0.
calculate_amount_score_nofloor(c, invoice_amount, transaction_amount) ==
    IF invoice_amount = transaction_amount
    THEN [score |-> One, expl |-> [msg |-> "Exact amount match", val |-> 0]]
    ELSE LET pd == percent_diff(invoice_amount, transaction_amount)
         IN  IF QLeq(pd, c.amount_tolerance_percent)
             THEN [score |-> QSub(One, QMul(QDiv(pd, c.amount_tolerance_percent), Half)),
                   expl  |-> [msg |-> "Amount within {:.1f}% tolerance", val |-> Tenths(pd)]]
             ELSE [score |-> QSub(One, QDiv(pd, Hundred)),
                   expl  |-> [msg |-> "Amount differs by {:.1f}%", val |-> Tenths(pd)]]

calculate_amount_score(c, invoice_amount, transaction_amount) ==
    IF invoice_amount = transaction_amount
    THEN [score |-> One, expl |-> [msg |-> "Exact amount match", val |-> 0]]
    ELSE LET pd == percent_diff(invoice_amount, transaction_amount)
         IN  IF QLeq(pd, c.amount_tolerance_percent)
             THEN [score |-> QSub(One, QMul(QDiv(pd, c.amount_tolerance_percent), Half)),
                   expl  |-> [msg |-> "Amount within {:.1f}% tolerance", val |-> Tenths(pd)]]
             ELSE [score |-> QMax(Zero, QSub(One, QDiv(pd, Hundred))),
                   expl  |-> [msg |-> "Amount differs by {:.1f}%", val |-> Tenths(pd)]]

----------------------------------------------------------------------------
(* calculate_date_score                                                    *)
(*                                                                         *)
(* A datetime is [day, hour, tz]: the wall-clock calendar day, the         *)
(* wall-clock hour of that day, and tzinfo (NoTz when naive).              *)

\* datetime.replace(tzinfo=None): drops the zone, keeps the wall clock.
replace_tzinfo_none(dt) == [dt EXCEPT !.tz = NoTz]

\* (x - y).days for naive datetimes: timedelta.days is the floor of the
\* difference in days; \div rounds toward minus infinity as timedelta does.
timedelta_days(x, y) == ((x.day * 24 + x.hour) - (y.day * 24 + y.hour)) \div 24

days_diff(invoice_date, transaction_date) ==
    LET i == IF invoice_date.tz # NoTz THEN replace_tzinfo_none(invoice_date)
                                       ELSE invoice_date
        t == IF transaction_date.tz # NoTz THEN replace_tzinfo_none(transaction_date)
                                           ELSE transaction_date
    IN  Abs(timedelta_days(i, t))

calculate_date_score(c, invoice_date, transaction_date) ==
    IF invoice_date = None
    THEN [score |-> Half, expl |-> [msg |-> "Invoice date not available", val |-> 0]]
    ELSE IF transaction_date = None
    THEN [error |-> "AttributeError"]         \* None has no attribute tzinfo
    ELSE LET dd == days_diff(Val(invoice_date), Val(transaction_date))
         IN  IF dd = 0
             THEN [score |-> One, expl |-> [msg |-> "Same day transaction", val |-> 0]]
             ELSE IF dd <= c.date_proximity_days
             THEN [score |-> QSub(One, QMul(Q(dd, c.date_proximity_days), Half)),
                   expl  |-> [msg |-> "Transaction {} days from invoice date", val |-> dd]]
             ELSE [score |-> QMax(Zero, QSub(One, Q(dd, 30))),
                   expl  |-> [msg |-> "Transaction {} days from invoice date", val |-> dd]]

----------------------------------------------------------------------------
(* calculate_text_score                                                    *)
(*                                                                         *)
(* A string is a sequence of one-character strings; None and the empty     *)
(* string are both falsy.  An explanation is [msg, val]: the format string *)
(* and the number formatted into it (0 when it has none); the text         *)
(* explanation carries best_match as [kind, text], kind "" for the empty   *)
(* best_match.                                                             *)

Truthy(s) == s # None /\ Val(s) # <<>>

lower_char(ch) ==
    CASE ch = "A" -> "a"
      [] ch = "N" -> "n"
      [] ch = "P" -> "p"
      [] OTHER    -> ch

lower(s) == [k \in 1..Len(s) |-> lower_char(s[k])]

\* needle in haystack
IsSubstring(needle, haystack) ==
    \E k \in 0..(Len(haystack) - Len(needle)) :
        \A m \in 1..Len(needle) : haystack[k + m] = needle[m]

\* fuzz.partial_ratio (fuzzywuzzy): the shorter string is aligned with the
\* substrings of the longer one that have its length, and the best
\* alignment's similarity is returned as an integer 0..100; it is 100 when
\* the shorter string occurs in the longer one and 0 for an empty string.
partial_ratio(s1, s2) ==
    LET shorter == IF Len(s1) <= Len(s2) THEN s1 ELSE s2
        longer  == IF Len(s1) <= Len(s2) THEN s2 ELSE s1
        m       == Len(shorter)
        Hits(k) == Cardinality({j \in 1..m : longer[k + j] = shorter[j]})
        best    == CHOOSE h \in {Hits(k) : k \in 0..(Len(longer) - m)} :
                       \A k \in 0..(Len(longer) - m) : Hits(k) <= h
    IN  IF m = 0 THEN 0 ELSE (200 * best + m) \div (2 * m)

Slice50(s) == IF Len(s) <= 50 THEN s ELSE SubSeq(s, 1, 50)

\* The loop "for invoice_text in invoice_texts" from position k on, carrying
\* the locals max_score and best_match.
RECURSIVE fuzzy_loop(_, _, _, _, _)
fuzzy_loop(invoice_texts, transaction_text, k, max_score, best_match) ==
    IF k > Len(invoice_texts)
    THEN [max_score |-> max_score, best_match |-> best_match]
    ELSE LET ratio == Q(partial_ratio(invoice_texts[k], transaction_text), 100)
         IN  IF QLt(max_score, ratio)
             THEN fuzzy_loop(invoice_texts, transaction_text, k + 1,
                             ratio, [kind |-> "text", text |-> Slice50(invoice_texts[k])])
             ELSE fuzzy_loop(invoice_texts, transaction_text, k + 1,
                             max_score, best_match)

\* Variant: the vendor match assigns 0.85 instead of raising the score to it.
calculate_text_score_assign(invoice_desc, transaction_desc, invoice_number, vendor_name) ==
    LET invoice_texts ==
            (IF Truthy(invoice_desc) THEN <<lower(Val(invoice_desc))>> ELSE <<>>)
            \o (IF Truthy(invoice_number) THEN <<lower(Val(invoice_number))>> ELSE <<>>)
            \o (IF Truthy(vendor_name) THEN <<lower(Val(vendor_name))>> ELSE <<>>)
    IN  IF ~Truthy(transaction_desc) \/ invoice_texts = <<>>
        THEN [score |-> Q(3, 10),
              expl  |-> [msg |-> "Insufficient text data for comparison", val |-> 0,
                         matched |-> [kind |-> "", text |-> <<>>]]]
        ELSE LET transaction_text == lower(Val(transaction_desc))
                 fz == fuzzy_loop(invoice_texts, transaction_text, 1, Zero,
                                  [kind |-> "", text |-> <<>>])
                 number_found == Truthy(invoice_number)
                                 /\ IsSubstring(lower(Val(invoice_number)), transaction_text)
                 vendor_found == Truthy(vendor_name)
                                 /\ IsSubstring(lower(Val(vendor_name)), transaction_text)
                 score1 == IF number_found THEN QMax(fz.max_score, Q(9, 10))
                                           ELSE fz.max_score
                 score2 == IF vendor_found THEN Q(85, 100) ELSE score1
             IN  [score |-> score2,
                  expl  |-> [msg |-> "Text similarity: {}%",
                             val |-> (score2.n * 100) \div score2.d,
                             matched |-> fz.best_match]]

calculate_text_score(invoice_desc, transaction_desc, invoice_number, vendor_name) ==
    LET invoice_texts ==
            (IF Truthy(invoice_desc) THEN <<lower(Val(invoice_desc))>> ELSE <<>>)
            \o (IF Truthy(invoice_number) THEN <<lower(Val(invoice_number))>> ELSE <<>>)
            \o (IF Truthy(vendor_name) THEN <<lower(Val(vendor_name))>> ELSE <<>>)
    IN  IF ~Truthy(transaction_desc) \/ invoice_texts = <<>>
        THEN [score |-> Q(3, 10),
              expl  |-> [msg |-> "Insufficient text data for comparison", val |-> 0,
                         matched |-> [kind |-> "", text |-> <<>>]]]
        ELSE LET transaction_text == lower(Val(transaction_desc))
                 fz == fuzzy_loop(invoice_texts, transaction_text, 1, Zero,
                                  [kind |-> "", text |-> <<>>])
                 number_found == Truthy(invoice_number)
                                 /\ IsSubstring(lower(Val(invoice_number)), transaction_text)
                 vendor_found == Truthy(vendor_name)
                                 /\ IsSubstring(lower(Val(vendor_name)), transaction_text)
                 score1 == IF number_found THEN QMax(fz.max_score, Q(9, 10))
                                           ELSE fz.max_score
                 match1 == IF number_found
                           THEN [kind |-> "Invoice number '{}' found in description",
                                 text |-> Val(invoice_number)]
                           ELSE fz.best_match
                 score2 == IF vendor_found THEN QMax(score1, Q(85, 100)) ELSE score1
                 match2 == IF vendor_found
                           THEN [kind |-> "Vendor name '{}' found in description",
                                 text |-> Val(vendor_name)]
                           ELSE match1
                 pct    == (score2.n * 100) \div score2.d      \* int(max_score * 100)
             IN  [score |-> score2,
                  expl  |-> [msg |-> "Text similarity: {}%", val |-> pct,
                             matched |-> match2]]

----------------------------------------------------------------------------
(* score_match                                                             *)

\* MatchCandidate.__init__; the explanation keeps the four joined parts
\* (Overall: the confidence formatted {:.1f}, in tenths).
MatchCandidate(invoice_id, transaction_id, score, amount_score, date_score, text_score, explanation) ==
    [invoice_id     |-> invoice_id,
     transaction_id |-> transaction_id,
     score          |-> score,
     amount_score   |-> amount_score,
     date_score     |-> date_score,
     text_score     |-> text_score,
     explanation    |-> explanation]

\* Variant: the weighted total is scaled but not clamped at 100.
total_score_unclamped(c, amount_score, date_score, text_score) ==
    QMul(QAdd(QAdd(QMul(amount_score, c.amount_exact_weight),
                   QMul(date_score, c.date_proximity_weight)),
              QMul(text_score, c.text_similarity_weight)),
         Hundred)

\* Variant: amount_close_weight also multiplies the amount sub-score.
total_score_with_close(c, amount_score, date_score, text_score) ==
    QMin(Hundred,
         QMul(QAdd(QAdd(QAdd(QMul(amount_score, c.amount_exact_weight),
                             QMul(amount_score, c.amount_close_weight)),
                        QMul(date_score, c.date_proximity_weight)),
                   QMul(text_score, c.text_similarity_weight)),
              Hundred))

total_score(c, amount_score, date_score, text_score) ==
    QMin(Hundred,
         QMul(QAdd(QAdd(QMul(amount_score, c.amount_exact_weight),
                        QMul(date_score, c.date_proximity_weight)),
                   QMul(text_score, c.text_similarity_weight)),
              Hundred))

score_match(c, invoice_id, invoice_amount, invoice_date, invoice_desc, invoice_number, vendor_name, transaction_id, transaction_amount, transaction_date, transaction_desc) ==
    LET a == calculate_amount_score(c, invoice_amount, transaction_amount)
        d == calculate_date_score(c, invoice_date, transaction_date)
        t == calculate_text_score(invoice_desc, transaction_desc,
                                  invoice_number, vendor_name)
    IN  IF "error" \in DOMAIN d
        THEN d
        ELSE LET total == total_score(c, a.score, d.score, t.score)
             IN  MatchCandidate(invoice_id, transaction_id, total,
                                QMul(a.score, Hundred),
                                QMul(d.score, Hundred),
                                QMul(t.score, Hundred),
                                [Amount |-> a.expl, Date |-> d.expl, Text |-> t.expl,
                                 Overall |-> Tenths(total)])

----------------------------------------------------------------------------
(* score_candidates                                                        *)
(*                                                                         *)
(* An invoice or transaction is a dict, modelled as a record.  'amount' is *)
(* what str() of the value reads as: [ok, value], ok false for text that   *)
(* Decimal() rejects.  Optional fields hold None or Some(x).               *)

\* dict.get(key): None for a missing key
get(d, key) == IF key \in DOMAIN d THEN d[key] ELSE None

\* Evaluation of the arguments of the score_match call (lines 261-270), in
\* order, and the call: the candidate, or the exception raised.
score_pair(c, invoice, transaction) ==
    IF "id" \notin DOMAIN invoice \/ "amount" \notin DOMAIN invoice
    THEN [error |-> "KeyError"]
    ELSE IF ~invoice.amount.ok
    THEN [error |-> "InvalidOperation"]
    ELSE IF "id" \notin DOMAIN transaction \/ "amount" \notin DOMAIN transaction
    THEN [error |-> "KeyError"]
    ELSE IF ~transaction.amount.ok
    THEN [error |-> "InvalidOperation"]
    ELSE IF "posted_at" \notin DOMAIN transaction
    THEN [error |-> "KeyError"]
    ELSE score_match(c, invoice.id, invoice.amount.value,
                     get(invoice, "invoice_date"), get(invoice, "description"),
                     get(invoice, "invoice_number"), get(invoice, "vendor_name"),
                     transaction.id, transaction.amount.value,
                     transaction.posted_at, get(transaction, "description"))

\* Variant: no currency filter.
admissible_any(invoice, transaction) == TRUE

\* Line 257: the pair is scored only when the currencies are equal.
admissible(invoice, transaction) ==
    get(invoice, "currency") = get(transaction, "currency")

\* The inner loop "for transaction in transactions" for invoice number i,
\* from transaction j on, carrying invoice_candidates and the pairs scored;
\* it stops at the first exception.
RECURSIVE inner_loop(_, _, _, _, _, _, _)
inner_loop(c, invoice, i, txns, j, invoice_candidates, done) ==
    IF j > Len(txns)
    THEN [candidates |-> invoice_candidates, scored |-> done, error |-> ""]
    ELSE IF ~admissible(invoice, txns[j])
    THEN inner_loop(c, invoice, i, txns, j + 1, invoice_candidates, done)
    ELSE LET r == score_pair(c, invoice, txns[j])
         IN  IF "error" \in DOMAIN r
             THEN [candidates |-> invoice_candidates, scored |-> done,
                   error |-> r.error]
             ELSE inner_loop(c, invoice, i, txns, j + 1,
                             Append(invoice_candidates, r), done \cup {<<i, j>>})

\* Variant: an unstable insertion, x goes before the elements of its score.
RECURSIVE Insert_before_equal(_, _)
Insert_before_equal(sorted, x) ==
    IF sorted = <<>> THEN <<x>>
    ELSE IF QLt(x.score, Head(sorted).score)
         THEN <<Head(sorted)>> \o Insert_before_equal(Tail(sorted), x)
         ELSE <<x>> \o sorted

\* list.sort(key=lambda x: x.score, reverse=True): a stable sort, equal
\* scores keep their order.  Insert(sorted, x) puts x after every element
\* whose score is >= x's.
RECURSIVE Insert(_, _)
Insert(sorted, x) ==
    IF sorted = <<>> THEN <<x>>
    ELSE IF QLeq(x.score, Head(sorted).score)
         THEN <<Head(sorted)>> \o Insert(Tail(sorted), x)
         ELSE <<x>> \o sorted

\* Variant: the sort without reverse=True (ascending).
RECURSIVE sort_by_score_ascending(_)
sort_by_score_ascending(seq) ==
    IF seq = <<>> THEN <<>>
    ELSE LET rest == sort_by_score_ascending(SubSeq(seq, 1, Len(seq) - 1))
             x    == seq[Len(seq)]
             n    == Cardinality({k \in 1..Len(rest) : QLeq(rest[k].score, x.score)})
         IN  SubSeq(rest, 1, n) \o <<x>> \o SubSeq(rest, n + 1, Len(rest))

RECURSIVE sort_by_score_reverse(_)
sort_by_score_reverse(seq) ==
    IF seq = <<>> THEN <<>>
    ELSE Insert(sort_by_score_reverse(SubSeq(seq, 1, Len(seq) - 1)), seq[Len(seq)])

\* Variant: no truncation.
slice_all(seq, n) == seq

\* Variant: the slice keeps the last n elements instead of the first.
slice_last(seq, n) ==
    LET keep == IF n >= 0 THEN (IF n < Len(seq) THEN n ELSE Len(seq)) ELSE 0
    IN  SubSeq(seq, Len(seq) - keep + 1, Len(seq))

\* seq[:n] of Python: the first n elements, and for a negative n all but
\* the last -n elements.
slice_to(seq, n) ==
    LET stop == IF n >= 0 THEN (IF n < Len(seq) THEN n ELSE Len(seq))
                          ELSE (IF Len(seq) + n > 0 THEN Len(seq) + n ELSE 0)
    IN  SubSeq(seq, 1, stop)

\* The outer loop "for invoice in invoices" from invoice i on, carrying
\* all_candidates, then the global sort: the list returned, or the exception.
RECURSIVE outer_loop(_, _, _, _, _, _)
outer_loop(c, invs, i, txns, n, acc) ==
    IF i > Len(invs)
    THEN [candidates |-> sort_by_score_reverse(acc), error |-> ""]
    ELSE LET r == inner_loop(c, invs[i], i, txns, 1, <<>>, {})
         IN  IF r.error # ""
             THEN [candidates |-> <<>>, error |-> r.error]
             ELSE outer_loop(c, invs, i + 1, txns, n,
                             acc \o slice_to(sort_by_score_reverse(r.candidates), n))

\* score_candidates as a function of the scorer and its arguments.
score_candidates(c, invs, txns, n) == outer_loop(c, invs, 1, txns, n, <<>>)

\* One iteration of the outer loop (lines 252-277) that completes.
ScoreInvoice ==
    /\ pc = "loop"
    /\ idx <= Len(invoices)
    /\ \E r \in {inner_loop(cfg, invoices[idx], idx, transactions, 1, <<>>, scored)} :
           /\ r.error = ""
           /\ all_candidates' =
                  all_candidates \o slice_to(sort_by_score_reverse(r.candidates), top_n)
           /\ scored' = r.scored
    /\ idx' = idx + 1
    /\ UNCHANGED <<pc, cfg, args, ret, invoices, transactions, top_n>>

\* An iteration of the outer loop in which scoring a pair raises: the
\* exception leaves score_candidates, nothing is returned.
RaiseInInvoice ==
    /\ pc = "loop"
    /\ idx <= Len(invoices)
    /\ \E r \in {inner_loop(cfg, invoices[idx], idx, transactions, 1, <<>>, scored)} :
           /\ r.error # ""
           /\ scored' = r.scored
           /\ ret' = Some([error |-> r.error])
    /\ pc' = "raised"
    /\ UNCHANGED <<cfg, args, invoices, transactions, top_n, idx, all_candidates>>

\* Lines 279-284: after the last invoice, the global sort and the return.
FinalSort ==
    /\ pc = "loop"
    /\ idx > Len(invoices)
    /\ all_candidates' = sort_by_score_reverse(all_candidates)
    /\ pc' = "done"
    /\ UNCHANGED <<cfg, args, ret, invoices, transactions, top_n, idx, scored>>

----------------------------------------------------------------------------
(* Inputs of the checked instances.                                        *)

MaxAmount   == 102      \* amounts of a calculate_amount_score call: -NegAmount..MaxAmount
NegAmount   == 2
MaxDay      == 32       \* calendar days of a calculate_date_score call: 0..MaxDay
MaxInvoices == 2        \* length of `invoices`
MaxTxns     == 3        \* length of `transactions`
MaxTopN     == 3        \* top_n ranges over -NegTopN..MaxTopN
NegTopN     == 2

Amounts == (-NegAmount)..MaxAmount

datetime(day, hour, tz) == [day |-> day, hour |-> hour, tz |-> tz]

Datetimes == {datetime(d, h, tz) : d \in 0..MaxDay, h \in {0, 23}, tz \in {NoTz, "UTC"}}

Decimal(v) == [ok |-> TRUE, value |-> v]
Malformed  == [ok |-> FALSE, value |-> 0]

Pay  == <<"P", "a", "y">>
N1   == <<"N", "1">>
Ac   == <<"A", "c">>
RefN1 == <<"p", "a", "y", "n", "1">>
ToAc  == <<"a", "c", "x">>

Invoice(id, amount, currency, invoice_date, description, invoice_number, vendor_name) ==
    [id |-> id, amount |-> amount, currency |-> Some(currency),
     invoice_date |-> invoice_date, description |-> description,
     invoice_number |-> invoice_number, vendor_name |-> vendor_name]

Transaction(id, amount, currency, posted_at, description) ==
    [id |-> id, amount |-> amount, currency |-> Some(currency),
     posted_at |-> posted_at, description |-> description]

InvoicePool ==
    { Invoice("inv-1", Decimal(99), "USD", Some(datetime(10, 0, NoTz)),
              Some(Pay), Some(N1), None),
      Invoice("inv-2", Decimal(61), "USD", None, None, None, Some(Ac)),
      Invoice("inv-3", Decimal(99), "EUR", Some(datetime(10, 23, "UTC")),
              Some(Pay), None, None) }

TransactionPool ==
    { Transaction("txn-1", Decimal(101), "USD", Some(datetime(10, 0, NoTz)), Some(RefN1)),
      Transaction("txn-2", Decimal(99), "USD", Some(datetime(11, 0, NoTz)), Some(Pay)),
      Transaction("txn-3", Decimal(29), "EUR", Some(datetime(10, 0, "UTC")), None),
      Transaction("txn-4", Decimal(99), "USD", Some(datetime(11, 0, NoTz)), Some(Pay)),
      Transaction("txn-5", Malformed, "EUR", Some(datetime(12, 0, NoTz)), Some(ToAc)) }

\* Sequences of at most n records of pool, no record twice (ids are unique).
RECURSIVE SeqsOfLen(_, _)
SeqsOfLen(pool, k) ==
    IF k = 0 THEN {<<>>}
    ELSE UNION { { Append(s, x) : x \in pool \ {s[m] : m \in 1..Len(s)} } :
                 s \in SeqsOfLen(pool, k - 1) }

SeqsOf(pool, n) == UNION { SeqsOfLen(pool, k) : k \in 0..n }

\* The invoices and transactions of a score_match call.
MatchInvoices ==
    { Invoice("inv-1", Decimal(a), "USD", d, desc, num, ven) :
        a \in {99, 100, -5}, d \in {None, Some(datetime(10, 0, NoTz)), Some(datetime(12, 23, "UTC"))},
        desc \in {None, Some(Pay)}, num \in {None, Some(N1)}, ven \in {None, Some(Ac)} }

MatchTransactions ==
    { Transaction("txn-1", Decimal(a), "USD", d, desc) :
        a \in {100, 101, 300, 5, 3},
        d \in {None, Some(datetime(10, 0, NoTz)), Some(datetime(11, 0, NoTz)), Some(datetime(50, 0, NoTz))},
        desc \in {None, Some(RefN1), Some(ToAc)} }

----------------------------------------------------------------------------
(* Specifications.                                                         *)

Idle ==
    /\ invoices = <<>> /\ transactions = <<>> /\ top_n = 0
    /\ idx = 0 /\ all_candidates = <<>> /\ scored = {}

NoCall == [fn |-> "score_candidates"]

\* score_candidates(invoices, transactions, top_n) on a scorer.
Init ==
    /\ pc = "loop"
    /\ cfg \in {DefaultConfig, HeavyConfig}
    /\ invoices \in SeqsOf(InvoicePool, MaxInvoices)
    /\ transactions \in SeqsOf(TransactionPool, MaxTxns)
    /\ top_n \in (-NegTopN)..MaxTopN
    /\ idx = 1
    /\ all_candidates = <<>>
    /\ scored = {}
    /\ args = NoCall
    /\ ret = None

Next == ScoreInvoice \/ RaiseInInvoice \/ FinalSort

Spec == Init /\ [][Next]_vars

\* calculate_amount_score(invoice_amount, transaction_amount)
InitAmount ==
    /\ pc = "call"
    /\ cfg \in Configs
    /\ args \in [fn : {"calculate_amount_score"},
                 invoice_amount : Amounts, transaction_amount : Amounts]
    /\ ret = None
    /\ Idle

CallAmount ==
    /\ pc = "call"
    /\ args.fn = "calculate_amount_score"
    /\ ret' = Some(calculate_amount_score(cfg, args.invoice_amount, args.transaction_amount))
    /\ pc' = "returned"
    /\ UNCHANGED <<cfg, args, invoices, transactions, top_n, idx, all_candidates, scored>>

SpecAmount == InitAmount /\ [][CallAmount]_vars

\* calculate_date_score(invoice_date, transaction_date)
InitDate ==
    /\ pc = "call"
    /\ cfg \in Configs
    /\ args \in [fn : {"calculate_date_score"},
                 invoice_date : {None} \cup {Some(d) : d \in Datetimes},
                 transaction_date : {None} \cup {Some(d) : d \in Datetimes}]
    /\ ret = None
    /\ Idle

CallDate ==
    /\ pc = "call"
    /\ args.fn = "calculate_date_score"
    /\ ret' = Some(calculate_date_score(cfg, args.invoice_date, args.transaction_date))
    /\ pc' = "returned"
    /\ UNCHANGED <<cfg, args, invoices, transactions, top_n, idx, all_candidates, scored>>

SpecDate == InitDate /\ [][CallDate]_vars

\* score_match(...) on the fields of one invoice and one transaction
InitMatch ==
    /\ pc = "call"
    /\ cfg \in Configs
    /\ args \in [fn : {"score_match"}, invoice : MatchInvoices,
                 transaction : MatchTransactions]
    /\ ret = None
    /\ Idle

CallMatch ==
    /\ pc = "call"
    /\ args.fn = "score_match"
    /\ LET i == args.invoice
           t == args.transaction
       IN  ret' = Some(score_match(cfg, i.id, i.amount.value, i.invoice_date,
                                   i.description, i.invoice_number, i.vendor_name,
                                   t.id, t.amount.value, t.posted_at, t.description))
    /\ pc' = "returned"
    /\ UNCHANGED <<cfg, args, invoices, transactions, top_n, idx, all_candidates, scored>>

SpecMatch == InitMatch /\ [][CallMatch]_vars

----------------------------------------------------------------------------
(* Properties of score_candidates (specification Spec).                    *)

Returned == pc = "done"

CandidateIndices == 1..Len(all_candidates)

\* Positions of the invoice and of the transaction a candidate pairs.
InvoiceOf(cand)     == {i \in 1..Len(invoices) : invoices[i].id = cand.invoice_id}
TransactionOf(cand) == {j \in 1..Len(transactions) : transactions[j].id = cand.transaction_id}

SameCurrency(i, j) == invoices[i].currency = transactions[j].currency

\* Number of transactions with the currency of invoice i.
AdmissibleCount(i) == Cardinality({j \in 1..Len(transactions) : SameCurrency(i, j)})

\* Number of candidates of invoice i in all_candidates.
Contribution(i) ==
    Cardinality({k \in CandidateIndices : all_candidates[k].invoice_id = invoices[i].id})

Min(a, b) == IF a <= b THEN a ELSE b

\* C1: no pair of an invoice and a transaction with different currencies is
\* ever scored, and no returned candidate pairs an invoice with a
\* transaction of another currency.
C1_CurrencyMismatchNeverScored ==
    /\ \A p \in scored : SameCurrency(p[1], p[2])
    /\ \A k \in CandidateIndices :
           \A i \in InvoiceOf(all_candidates[k]), j \in TransactionOf(all_candidates[k]) :
               SameCurrency(i, j)

\* C1 witness: a call that returned candidates from a batch holding a pair
\* with different currencies.
C1_Witness ==
    /\ Returned
    /\ all_candidates # <<>>
    /\ \E i \in 1..Len(invoices), j \in 1..Len(transactions) : ~SameCurrency(i, j)

\* C2: for top_n >= 0 every invoice contributes exactly min(k, top_n)
\* candidates to the returned list, k its number of same-currency
\* transactions (so at most top_n per invoice, not in total).
C2_TopNPerInvoice ==
    (Returned /\ top_n >= 0) =>
        \A i \in 1..Len(invoices) : Contribution(i) = Min(AdmissibleCount(i), top_n)

\* C2 witness: two invoices each truncated to top_n, more than top_n
\* candidates returned in total.
C2_Witness ==
    /\ Returned
    /\ top_n >= 1
    /\ Len(invoices) = 2
    /\ \A i \in 1..2 : AdmissibleCount(i) > top_n /\ Contribution(i) = top_n
    /\ Len(all_candidates) = 2 * top_n

\* C3 (as claimed): for top_n <= 0 the call returns an empty list.
C3_NonPositiveTopNRetainsNone ==
    (Returned /\ top_n <= 0) => all_candidates = <<>>

\* C4: the returned list is sorted by score, descending, and it is returned
\* only after the outer loop has passed every invoice and every
\* same-currency pair has been scored.
C4_SortedDescendingAfterAll ==
    Returned =>
        /\ \A k \in 1..(Len(all_candidates) - 1) :
               QLeq(all_candidates[k + 1].score, all_candidates[k].score)
        /\ idx = Len(invoices) + 1
        /\ \A i \in 1..Len(invoices), j \in 1..Len(transactions) :
               SameCurrency(i, j) => <<i, j>> \in scored

\* C4 witness: the returned list starts with a candidate of the second
\* invoice and holds, later, a lower-scored candidate of the first invoice.
C4_Witness ==
    /\ Returned
    /\ Len(invoices) = 2
    /\ Len(all_candidates) >= 3
    /\ all_candidates[1].invoice_id = invoices[2].id
    /\ \E k \in CandidateIndices :
           /\ all_candidates[k].invoice_id = invoices[1].id
           /\ QLt(all_candidates[k].score, all_candidates[1].score)

----------------------------------------------------------------------------
(* Properties of score_match (specification SpecMatch).                    *)

\* The three sub-scores of the call in args, each in 0..1.
AmountSub == calculate_amount_score(cfg, args.invoice.amount.value,
                                    args.transaction.amount.value).score
DateSub   == calculate_date_score(cfg, args.invoice.invoice_date,
                                  args.transaction.posted_at).score
TextSub   == calculate_text_score(args.invoice.description, args.transaction.description,
                                  args.invoice.invoice_number, args.invoice.vendor_name).score

\* 100 x (amount_sub x W_amount + date_sub x W_date + text_sub x W_text)
WeightedPercent ==
    QMul(Hundred,
         QAdd(QMul(AmountSub, cfg.amount_exact_weight),
              QAdd(QMul(DateSub, cfg.date_proximity_weight),
                   QMul(TextSub, cfg.text_similarity_weight))))

\* C5: the candidate's score is min(100, 100 x weighted sum) and its three
\* sub-score fields are 100 x the sub-scores, whatever the weights.
C5_WeightedScoreClamped ==
    (pc = "returned" /\ args.fn = "score_match" /\ "error" \notin DOMAIN Val(ret)) =>
        LET cand == Val(ret)
        IN  /\ cand.score = (IF QLeq(WeightedPercent, Hundred) THEN WeightedPercent
                                                                ELSE Hundred)
            /\ cand.amount_score = QMul(Hundred, AmountSub)
            /\ cand.date_score = QMul(Hundred, DateSub)
            /\ cand.text_score = QMul(Hundred, TextSub)

\* C5 witness: a candidate whose weighted sum exceeds 100 and whose score is
\* 100, with a sub-score field that is not 100.
C5_Witness ==
    /\ pc = "returned" /\ args.fn = "score_match" /\ "error" \notin DOMAIN Val(ret)
    /\ QLt(Hundred, WeightedPercent)
    /\ Val(ret).score = Hundred
    /\ Val(ret).amount_score # Hundred

----------------------------------------------------------------------------
(* Properties of calculate_amount_score (specification SpecAmount).        *)

AmountReturned == pc = "returned" /\ args.fn = "calculate_amount_score"

ArgDiff == Abs(args.invoice_amount - args.transaction_amount)
ArgSum  == args.invoice_amount + args.transaction_amount

\* |a-b| / ((a+b)/2) x 100 compared with the tolerance tn/td, for a+b > 0:
\* 200 |a-b| td  against  tn (a+b).
Tol == cfg.amount_tolerance_percent
PercentDiffEqualsTolerance == ArgSum > 0 /\ 200 * ArgDiff * Tol.d = Tol.n * ArgSum
PercentDiffWithinTolerance == ArgSum > 0 /\ 200 * ArgDiff * Tol.d <= Tol.n * ArgSum

\* C6 (as claimed): among pairs with the same positive average, a pair with
\* a larger absolute difference never gets a higher score.
C6_AmountScoreMonotone ==
    (AmountReturned /\ ArgSum > 0) =>
        \A a2 \in Amounts :
            LET b2 == ArgSum - a2
            IN  (b2 \in Amounts /\ Abs(a2 - b2) >= ArgDiff) =>
                    QLeq(calculate_amount_score(cfg, a2, b2).score, Val(ret).score)

\* C9 (as claimed): with the default tolerance, a transaction amount that
\* exceeds the invoice amount by 50% of it scores below 0.5.
C9_FiftyPercentOverScoresLow ==
    (/\ AmountReturned
     /\ cfg.amount_tolerance_percent = QInt(2)
     /\ args.invoice_amount > 0
     /\ 2 * (args.transaction_amount - args.invoice_amount) = args.invoice_amount)
        => QLt(Val(ret).score, Half)

\* C10: equal amounts score 1.0; a percent difference equal to the
\* tolerance scores 0.5; inside the tolerance band the score is
\* 1.0 - (percent_diff / tolerance) x 0.5, between 0.5 and 1.0.
C10_ToleranceBand ==
    AmountReturned =>
        /\ (ArgDiff = 0) => Val(ret).score = One
        /\ (ArgDiff # 0 /\ PercentDiffEqualsTolerance) => Val(ret).score = Half
        /\ (ArgDiff # 0 /\ PercentDiffWithinTolerance) =>
               /\ Val(ret).score = Q(Tol.n * ArgSum - 100 * ArgDiff * Tol.d, Tol.n * ArgSum)
               /\ QLeq(Half, Val(ret).score)
               /\ QLeq(Val(ret).score, One)

\* C10 witness: a pair of different amounts whose percent difference is the
\* default tolerance of 2%, scored 0.5.
C10_Witness ==
    /\ AmountReturned
    /\ cfg = DefaultConfig
    /\ ArgDiff # 0
    /\ PercentDiffEqualsTolerance
    /\ Val(ret).score = Half

----------------------------------------------------------------------------
(* Properties of calculate_date_score (specification SpecDate).            *)

DateReturned ==
    /\ pc = "returned" /\ args.fn = "calculate_date_score"
    /\ args.invoice_date # None /\ args.transaction_date # None

\* C7 (as claimed): a day difference beyond the proximity window scores
\* strictly below 0.5, and a zero day difference scores 1.0.
C7_BeyondWindowBelowFloor ==
    DateReturned =>
        LET dd == days_diff(Val(args.invoice_date), Val(args.transaction_date))
        IN  /\ (dd > cfg.date_proximity_days) => QLt(Val(ret).score, Half)
            /\ (dd = 0) => Val(ret).score = One

\* C8 (as claimed): two timestamps on the same calendar date score 1.0
\* whatever their times of day, and swapping the timestamps does not change
\* the score.
C8_CalendarDateDifference ==
    DateReturned =>
        /\ (Val(args.invoice_date).day = Val(args.transaction_date).day)
               => Val(ret).score = One
        /\ Val(ret).score =
               calculate_date_score(cfg, args.transaction_date, args.invoice_date).score

----------------------------------------------------------------------------
(* calculate_text_score as a call (specification SpecText).                *)

Texts == {None, Some(<<>>), Some(Pay), Some(<<"x", "y">>)}

TransactionTexts ==
    {None, Some(<<>>), Some(RefN1), Some(ToAc), Some(<<"A", "c", "N", "1">>),
     Some(<<"z", "z">>), Some(<<"p", "a", "x">>)}

InitText ==
    /\ pc = "call"
    /\ cfg \in Configs
    /\ args \in [fn : {"calculate_text_score"},
                 invoice_desc : Texts,
                 transaction_desc : TransactionTexts,
                 invoice_number : {None, Some(N1)},
                 vendor_name : {None, Some(<<>>), Some(Ac)}]
    /\ ret = None
    /\ Idle

CallText ==
    /\ pc = "call"
    /\ args.fn = "calculate_text_score"
    /\ ret' = Some(calculate_text_score(args.invoice_desc, args.transaction_desc,
                                        args.invoice_number, args.vendor_name))
    /\ pc' = "returned"
    /\ UNCHANGED <<cfg, args, invoices, transactions, top_n, idx, all_candidates, scored>>

SpecText == InitText /\ [][CallText]_vars

TextReturned == pc = "returned" /\ args.fn = "calculate_text_score"

\* The invoice-side texts that are present, case-folded.
InvoiceSideTexts ==
    {lower(Val(t)) : t \in {x \in {args.invoice_desc, args.invoice_number, args.vendor_name} :
                              Truthy(x)}}

SufficientText == Truthy(args.transaction_desc) /\ InvoiceSideTexts # {}

\* The largest fuzzy similarity of an invoice-side text, in 0..1.
FuzzyMax ==
    LET ratios == {partial_ratio(t, lower(Val(args.transaction_desc))) : t \in InvoiceSideTexts}
    IN  Q(CHOOSE r \in ratios : \A q \in ratios : q <= r, 100)

NumberFound ==
    Truthy(args.invoice_number)
    /\ IsSubstring(lower(Val(args.invoice_number)), lower(Val(args.transaction_desc)))
VendorFound ==
    Truthy(args.vendor_name)
    /\ IsSubstring(lower(Val(args.vendor_name)), lower(Val(args.transaction_desc)))

\* C11: with a transaction description and an invoice-side text present,
\* the text score is the larger of the fuzzy maximum and the override (0.9
\* for the invoice number, 0.85 for the vendor name), never a sum: at least
\* 0.85 / 0.9 when the vendor name / invoice number is found, the fuzzy
\* maximum when neither is, and never above 1.0.
C11_TextScoreIsMaxOfOverride ==
    (TextReturned /\ SufficientText) =>
        LET score    == Val(ret).score
            override == IF NumberFound THEN Q(9, 10)
                        ELSE IF VendorFound THEN Q(85, 100) ELSE Zero
        IN  /\ score = (IF QLeq(FuzzyMax, override) THEN override ELSE FuzzyMax)
            /\ VendorFound => QLeq(Q(85, 100), score)
            /\ NumberFound => QLeq(Q(9, 10), score)
            /\ (~VendorFound /\ ~NumberFound) => score = FuzzyMax
            /\ QLeq(score, One)

\* C11 witness: a call in which both the invoice number and the vendor name
\* occur in the transaction description.
C11_Witness ==
    /\ TextReturned /\ SufficientText
    /\ NumberFound /\ VendorFound
    /\ QLeq(Q(9, 10), Val(ret).score)

\* C12 (as claimed): when the invoice number occurs in the transaction
\* description, the explanation names the invoice number as the matched
\* field, also when the vendor name occurs there too.
C12_ExplanationNamesInvoiceNumber ==
    (TextReturned /\ SufficientText /\ NumberFound) =>
        /\ Val(ret).expl.matched.kind = "Invoice number '{}' found in description"
        /\ Val(ret).expl.matched.text = Val(args.invoice_number)

----------------------------------------------------------------------------
(* Error handling (specifications Spec and SpecMatch).                     *)

MalformedInBatch ==
    \/ \E i \in 1..Len(invoices) : ~invoices[i].amount.ok
    \/ \E j \in 1..Len(transactions) : ~transactions[j].amount.ok

\* C13 (as claimed): a batch holding an invoice or a transaction whose
\* amount is not a decimal never returns normally.
C13_MalformedAmountFailsCall ==
    MalformedInBatch => ~Returned

MatchReturned == pc = "returned" /\ args.fn = "score_match"

\* C14 (as claimed): scoring a transaction without a posted timestamp ends
\* in an error, whether or not the invoice has a date.
C14_MissingTimestampFailsFast ==
    (MatchReturned /\ args.transaction.posted_at = None) =>
        "error" \in DOMAIN Val(ret)

----------------------------------------------------------------------------
(* Ordering of ties (specification Spec).                                  *)

\* Position in the input of the invoice / transaction of a candidate.
InvoicePos(cand)     == CHOOSE i \in 1..Len(invoices) : invoices[i].id = cand.invoice_id
TransactionPos(cand) == CHOOSE j \in 1..Len(transactions) : transactions[j].id = cand.transaction_id

\* The pair of invoice i and transaction j is in the returned list.
Present(i, j) ==
    \E k \in CandidateIndices :
        /\ all_candidates[k].invoice_id = invoices[i].id
        /\ all_candidates[k].transaction_id = transactions[j].id

\* C15: candidates with equal scores keep the input order: by transaction
\* within an invoice, by invoice across invoices; and of two equal-scored
\* pairs of an invoice of which top_n keeps one, the earlier transaction is
\* kept.
C15_TiesKeepInputOrder ==
    Returned =>
        /\ \A k, l \in CandidateIndices :
               (k < l /\ all_candidates[k].score = all_candidates[l].score) =>
                   LET ik == InvoicePos(all_candidates[k])
                       il == InvoicePos(all_candidates[l])
                   IN  IF ik = il
                       THEN TransactionPos(all_candidates[k]) < TransactionPos(all_candidates[l])
                       ELSE ik < il
        /\ \A i \in 1..Len(invoices), j \in 1..Len(transactions) :
               (SameCurrency(i, j) /\ ~Present(i, j)) =>
                   \A k \in CandidateIndices :
                       (/\ all_candidates[k].invoice_id = invoices[i].id
                        /\ all_candidates[k].score
                               = score_pair(cfg, invoices[i], transactions[j]).score)
                           => TransactionPos(all_candidates[k]) < j

\* C15 witness: four returned candidates of two invoices, all of one score,
\* and a third pair of the first invoice with that score cut by top_n.
C15_Witness ==
    /\ Returned
    /\ top_n = 2
    /\ Len(invoices) = 2
    /\ Len(all_candidates) = 4
    /\ \A k \in CandidateIndices : all_candidates[k].score = all_candidates[1].score
    /\ \E j \in 1..Len(transactions) :
           /\ SameCurrency(1, j) /\ ~Present(1, j)
           /\ score_pair(cfg, invoices[1], transactions[j]).score = all_candidates[1].score

----------------------------------------------------------------------------
(* Ranges of the scores (specification SpecMatch).                         *)

InUnit(q)    == QLeq(Zero, q) /\ QLeq(q, One)
InPercent(q) == QLeq(Zero, q) /\ QLeq(q, Hundred)

NonNegativeWeights ==
    /\ QLeq(Zero, cfg.amount_exact_weight)
    /\ QLeq(Zero, cfg.amount_close_weight)
    /\ QLeq(Zero, cfg.date_proximity_weight)
    /\ QLeq(Zero, cfg.text_similarity_weight)

\* C16: with non-negative weights, a returned candidate has its score and
\* its three sub-score fields in 0..100, and the three component scorers
\* return values in 0..1 for its inputs.
C16_ScoresInRange ==
    (MatchReturned /\ "error" \notin DOMAIN Val(ret) /\ NonNegativeWeights) =>
        /\ InPercent(Val(ret).score)
        /\ InPercent(Val(ret).amount_score)
        /\ InPercent(Val(ret).date_score)
        /\ InPercent(Val(ret).text_score)
        /\ InUnit(AmountSub)
        /\ InUnit(DateSub)
        /\ InUnit(TextSub)

\* C16 witness: a candidate for amounts whose average is not positive and
\* that differ by more than 100% of it, with no invoice date and too little
\* text, under weights that do not sum to 1.
C16_Witness ==
    /\ MatchReturned /\ "error" \notin DOMAIN Val(ret) /\ NonNegativeWeights
    /\ args.invoice.amount.value + args.transaction.amount.value <= 0
    /\ args.invoice.invoice_date = None
    /\ DateSub = Half
    /\ TextSub = Q(3, 10)
    /\ AmountSub = Zero
    /\ cfg = HeavyConfig

\* C16 witness (second case): a positive average with a difference above
\* 100% of it, where only the floor keeps the amount score at 0.
C16_WitnessOverHundred ==
    /\ MatchReturned /\ "error" \notin DOMAIN Val(ret)
    /\ args.invoice.amount.value + args.transaction.amount.value > 0
    /\ QLt(Hundred, percent_diff(args.invoice.amount.value, args.transaction.amount.value))
    /\ Val(ret).amount_score = Zero

----------------------------------------------------------------------------
(* amount_close_weight (specification SpecScorer).                         *)
(*                                                                         *)
(* One scorer serves score_candidates calls and score_match calls, and a   *)
(* score_match call is repeated on the same scorer with the same inputs.   *)

\* A second score_match call on the same scorer with the same arguments.
CallMatchAgain ==
    /\ pc = "returned"
    /\ args.fn = "score_match"
    /\ LET i == args.invoice
           t == args.transaction
       IN  ret' = Some(score_match(cfg, i.id, i.amount.value, i.invoice_date,
                                   i.description, i.invoice_number, i.vendor_name,
                                   t.id, t.amount.value, t.posted_at, t.description))
    /\ pc' = "returned_again"
    /\ UNCHANGED <<cfg, args, invoices, transactions, top_n, idx, all_candidates, scored>>

InitScorer == Init \/ InitMatch

NextScorer == ScoreInvoice \/ RaiseInInvoice \/ FinalSort \/ CallMatch \/ CallMatchAgain

SpecScorer == InitScorer /\ [][NextScorer]_vars

\* Values of amount_close_weight of the compared scorers.
CloseWeights == {Zero, Q(1, 5), QInt(3)}

\* The scorer with amount_close_weight replaced by w.
WithCloseWeight(w) == [cfg EXCEPT !.amount_close_weight = w]

\* What score_match returns (or raises) for the call in args on scorer c.
MatchOutcome(c) ==
    LET i == args.invoice
        t == args.transaction
    IN  score_match(c, i.id, i.amount.value, i.invoice_date,
                    i.description, i.invoice_number, i.vendor_name,
                    t.id, t.amount.value, t.posted_at, t.description)

\* The outcome of the score_match call is the one every scorer differing
\* only in amount_close_weight gives.
MatchIgnoresCloseWeight ==
    (pc \in {"returned", "returned_again"} /\ args.fn = "score_match") =>
        \A w \in CloseWeights : MatchOutcome(WithCloseWeight(w)) = Val(ret)

\* The list returned by score_candidates (or the exception raised) is the
\* one every scorer differing only in amount_close_weight gives.
BatchIgnoresCloseWeight ==
    /\ pc = "done" =>
           \A w \in CloseWeights :
               score_candidates(WithCloseWeight(w), invoices, transactions, top_n)
                   = [candidates |-> all_candidates, error |-> ""]
    /\ pc = "raised" =>
           \A w \in CloseWeights :
               score_candidates(WithCloseWeight(w), invoices, transactions, top_n).error
                   = Val(ret).error

\* The second call returns what the first returned.
SecondCallSame == (pc = "returned" /\ pc' = "returned_again") => ret' = ret

----------------------------------------------------------------------------
(* What the truncation keeps (specification Spec).                         *)

\* Admissible pairs of the input with the ids of a candidate.
PairsOf(cand) ==
    { p \in (1..Len(invoices)) \X (1..Len(transactions)) :
        /\ SameCurrency(p[1], p[2])
        /\ invoices[p[1]].id = cand.invoice_id
        /\ transactions[p[2]].id = cand.transaction_id }

\* C18: for top_n >= 0, no admissible pair absent from the returned list
\* scores strictly higher than a returned pair of the same invoice; every
\* returned candidate is the score of exactly one admissible pair of the
\* input, and no pair is returned twice.
C18_TopNKeepsBest ==
    (Returned /\ top_n >= 0) =>
        /\ \A i \in 1..Len(invoices), j \in 1..Len(transactions) :
               (SameCurrency(i, j) /\ ~Present(i, j)) =>
                   \A k \in CandidateIndices :
                       all_candidates[k].invoice_id = invoices[i].id =>
                           QLeq(score_pair(cfg, invoices[i], transactions[j]).score,
                                all_candidates[k].score)
        /\ \A k \in CandidateIndices :
               /\ Cardinality(PairsOf(all_candidates[k])) = 1
               /\ \A p \in PairsOf(all_candidates[k]) :
                      all_candidates[k] = score_pair(cfg, invoices[p[1]], transactions[p[2]])
        /\ \A k, l \in CandidateIndices :
               (/\ all_candidates[k].invoice_id = all_candidates[l].invoice_id
                /\ all_candidates[k].transaction_id = all_candidates[l].transaction_id)
                   => k = l

\* C18 witness: top_n has cut a pair that scores strictly lower than a
\* returned pair of the same invoice, the cut pair earlier in the input.
C18_Witness ==
    /\ Returned
    /\ top_n >= 1
    /\ \E i \in 1..Len(invoices), j \in 1..Len(transactions) :
           /\ SameCurrency(i, j) /\ ~Present(i, j)
           /\ \E k \in CandidateIndices :
                  /\ all_candidates[k].invoice_id = invoices[i].id
                  /\ j < TransactionPos(all_candidates[k])
                  /\ QLt(score_pair(cfg, invoices[i], transactions[j]).score,
                         all_candidates[k].score)

====
